---- MODULE Spec2Model ----
\* Model of smarthoper.py: SSP frame codec (calculate_crc, create_ssp_packet),
\* link-parameter discovery (test_serial_port) and the command run of main().
EXTENDS Integers, Sequences, FiniteSets, TLC

\* ---------------------------------------------------------------- constants
VENDOR_ID == 6428          \* 0x191c
PRODUCT_ID == 16644        \* 0x4104
CMD_SYNC == 17             \* 0x11
CMD_SETUP_REQUEST == 5     \* 0x05
CMD_ENABLE == 10           \* 0x0A
CMD_DISABLE == 9           \* 0x09
CMD_POLL == 7              \* 0x07
CMD_RESET == 1             \* 0x01
STX == 127                 \* 0x7F, first byte of every packet
DEFAULT_SEQUENCE == 128    \* 0x80, default of create_ssp_packet and start of a command run
EXTRA_POLLS == 3           \* range(3)

\* ---------------------------------------------------------------- bounds
MaxDiscFaults == 4         \* transport faults injected during one discovery (one per baud rate)
MaxPorts == 2              \* length of the enumerated port list
MaxDataLen == 2            \* exhaustively enumerated payload lengths
MaxAdvances == 260         \* advances of the sequence byte followed in ToggleSpec
MaxCrcLen == 2             \* length of the byte lists followed in CrcSpec

None == "None"
Unset == 0                 \* a local that has not been assigned yet

\* ---------------------------------------------------------------- integer bit operations
RECURSIVE BitXor(_, _)
BitXor(a, b) ==
    IF a = 0 THEN b
    ELSE IF b = 0 THEN a
    ELSE (((a % 2) + (b % 2)) % 2) + 2 * BitXor(a \div 2, b \div 2)

RECURSIVE BitAnd(_, _)
BitAnd(a, b) ==
    IF a = 0 \/ b = 0 THEN 0
    ELSE ((a % 2) * (b % 2)) + 2 * BitAnd(a \div 2, b \div 2)

RECURSIVE BitOr(_, _)
BitOr(a, b) ==
    IF a = 0 THEN b
    ELSE IF b = 0 THEN a
    ELSE (IF a % 2 = 1 \/ b % 2 = 1 THEN 1 ELSE 0) + 2 * BitOr(a \div 2, b \div 2)

\* ---------------------------------------------------------------- frame codec
\* variant: the polynomial is applied before the shift
CrcShift_XorFirst(crc) ==
    IF BitAnd(crc, 1) # 0 THEN BitXor(crc, 33800) \div 2 ELSE crc \div 2

\* one pass of the inner loop "for _ in range(8)"
CrcShift(crc) ==
    IF BitAnd(crc, 1) # 0 THEN BitXor(crc \div 2, 33800) ELSE crc \div 2

\* "for _ in range(8)"; the test on the new register makes the evaluation strict
RECURSIVE CrcBits(_, _)
CrcBits(crc, n) ==
    IF n = 0 THEN crc
    ELSE LET shifted == CrcShift(crc)
         IN  IF shifted >= 0 THEN CrcBits(shifted, n - 1) ELSE shifted

\* variant: the byte replaces the register instead of being XORed into it
CrcByte_Assign(crc, b) == CrcBits(b, 8)

\* the body of "for b in data" for one byte b
CrcByte(crc, b) == CrcBits(BitXor(crc, b), 8)

\* "for b in data" over data[lo..hi], in order; the range is folded in halves to keep the
\* evaluation shallow, and the test on the intermediate register makes it strict
RECURSIVE CrcRange(_, _, _, _)
CrcRange(crc, data, lo, hi) ==
    IF lo > hi THEN crc
    ELSE IF lo = hi THEN CrcByte(crc, data[lo])
    ELSE LET mid == (lo + hi) \div 2
             left == CrcRange(crc, data, lo, mid)
         IN  IF left >= 0 THEN CrcRange(left, data, mid + 1, hi) ELSE left

calculate_crc(data) == CrcRange(65535, data, 1, Len(data))

\* bytes(packet) raises ValueError when an element is outside range(0, 256)
ValueError == << -1 >>

\* variant: the length byte is not checked against the byte range
IsByteList_WideLength(s) == \A i \in 1..Len(s) : i # 3 => s[i] \in 0..255

IsByteList(s) == \A i \in 1..Len(s) : s[i] \in 0..255

\* variant: the checksum trailer written high byte first
create_ssp_packet_BigEndianCrc(command, seq, data) ==
    LET head == <<STX, seq, Len(data) + 1, command>> \o data
        sum == calculate_crc(head)
        full == head \o <<BitAnd(sum \div 256, 255), BitAnd(sum, 255)>>
    IN  IF IsByteList(full) THEN full ELSE ValueError

create_ssp_packet(command, seq, data) ==
    LET head == <<STX, seq, Len(data) + 1, command>> \o data
        sum == calculate_crc(head)
        full == head \o <<BitAnd(sum, 255), BitAnd(sum \div 256, 255)>>
    IN  IF IsByteList(full) THEN full ELSE ValueError

\* variant: the counter wraps as a byte and the 0x80 flag is not re-applied
AdvanceSequence_ByteWrap(seq) == BitAnd(seq + 1, 255)

\* sequence = 0x80 | ((sequence + 1) & 0x7F)
AdvanceSequence(seq) == BitOr(128, BitAnd(seq + 1, 127))

\* 0x80 | ((sequence + i + 1) & 0x7F), i = 0, 1, 2
ExtraPollSequence(seq, i) == BitOr(128, BitAnd(seq + i + 1, 127))

\* ---------------------------------------------------------------- discovery search space
baud_rates == <<9600, 19200, 38400, 115200>>

\* variant: RTS toggled before DTR
configurations_Reordered == <<
    <<FALSE, FALSE>>,
    <<FALSE, TRUE>>,
    <<TRUE, FALSE>>,
    <<TRUE, TRUE>> >>

configurations == <<
    <<FALSE, FALSE>>,
    <<TRUE, FALSE>>,
    <<FALSE, TRUE>>,
    <<TRUE, TRUE>> >>

commands == <<CMD_SYNC, CMD_SETUP_REQUEST, CMD_ENABLE, CMD_POLL>>

\* ---------------------------------------------------------------- device enumeration
PortEntries == {
    [vid |-> VENDOR_ID, pid |-> PRODUCT_ID, device |-> "/dev/ttyUSB0"],
    [vid |-> VENDOR_ID, pid |-> PRODUCT_ID, device |-> "/dev/ttyUSB1"],
    [vid |-> VENDOR_ID, pid |-> 1,          device |-> "/dev/ttyACM0"],
    [vid |-> 1,         pid |-> PRODUCT_ID, device |-> "/dev/ttyS0"] }

PortLists == UNION { [1..n -> PortEntries] : n \in 0..MaxPorts }

RECURSIVE FirstMatch(_, _)
FirstMatch(ps, i) ==
    IF i > Len(ps) THEN None
    ELSE IF ps[i].vid = VENDOR_ID /\ ps[i].pid = PRODUCT_ID THEN ps[i].device
    ELSE FirstMatch(ps, i + 1)

\* variant: the loop has no break, the last matching entry wins
identify_device_NoBreak(ps) ==
    LET found == {i \in 1..Len(ps) : ps[i].vid = VENDOR_ID /\ ps[i].pid = PRODUCT_ID}
    IN  IF found = {} THEN None
        ELSE ps[CHOOSE i \in found : \A j \in found : j <= i].device

identify_device(ps) == FirstMatch(ps, 1)

\* ---------------------------------------------------------------- state
VARIABLES
    pc,          \* position of the single thread of control
    ports,       \* the list returned by comports(), <<>> once main is past the identification
    port,        \* main: port
    access,      \* outcome of the permission step of test_serial_port
    bi,          \* test_serial_port: index of baud in baud_rates
    ci,          \* test_serial_port: index of (dtr, rts) in configurations, 0 outside the inner loop
    nOpen,       \* number of serial.Serial objects currently open
    ser,         \* line parameters of the open transport
    settings,    \* main: settings (return value of test_serial_port)
    sequence,    \* main: sequence
    ki,          \* main: index of cmd in commands
    xi,          \* main: i of the extra POLL loop
    status,      \* return value of main
    writes,      \* packets handed to ser.write in the current phase, with the line state
    opens,       \* successful opens in the current phase
    discFaults,  \* exceptions caught by test_serial_port
    lastFault,   \* <<bi, ci>> where the last exception of test_serial_port was raised
    hit,         \* line state of the first non-empty read of test_serial_port
    afterHit,    \* opens, line changes and writes of test_serial_port after that read
    reads,       \* outcome of every ser.read of the command run, in order
    seqFault,    \* an exception was caught by main
    advances,    \* applications of the sequence advance
    arg,         \* arguments of the last create_ssp_packet call of CodecSpec
    ret,         \* its result
    trail,       \* test_serial_port: the calls made for the current candidate, in order
    crcRun       \* calculate_crc: data, loop positions and the local crc of CrcSpec

vars == <<pc, ports, port, access, bi, ci, nOpen, ser, settings, sequence, ki, xi,
          status, writes, opens, discFaults, lastFault, hit, afterHit, reads,
          seqFault, advances, arg, ret, trail, crcRun>>

Closed == [port |-> None, baud |-> 0, dtr |-> FALSE, rts |-> FALSE]
NoSettings == [port |-> None, baudrate |-> 0, dtr |-> FALSE, rts |-> FALSE]
NoHit == [port |-> None, baud |-> 0, dtr |-> FALSE, rts |-> FALSE]
NoArg == [command |-> 0, sequence |-> 0, data |-> <<>>]
NoFault == <<0, 0>>
NoCrc == [data |-> <<>>, i |-> 0, n |-> 0, reg |-> 0]
Running == -1              \* main has not returned

AccessOutcomes == {"granted", "remediated", "remediation_failed", "check_faulted"}

\* the state before main() runs; p is the first position, s the sequence byte
Start(p, s) ==
    /\ pc = p
    /\ ports = <<>>
    /\ port = None
    /\ access = None
    /\ bi = 0
    /\ ci = 0
    /\ nOpen = 0
    /\ ser = Closed
    /\ settings = NoSettings
    /\ sequence = s
    /\ ki = 0
    /\ xi = 0
    /\ status = Running
    /\ writes = <<>>
    /\ opens = 0
    /\ discFaults = 0
    /\ lastFault = NoFault
    /\ hit = NoHit
    /\ afterHit = 0
    /\ reads = <<>>
    /\ seqFault = FALSE
    /\ advances = 0
    /\ arg = NoArg
    /\ ret = <<>>
    /\ trail = <<>>
    /\ crcRun = NoCrc

Init == Start("m_enumerate", Unset)


\* ---------------------------------------------------------------- transport
\* serial.Serial(...) opened: pyserial asserts DTR and RTS on open
OpenSer(name, baud) ==
    /\ nOpen' = nOpen + 1
    /\ ser' = [port |-> name, baud |-> baud, dtr |-> TRUE, rts |-> TRUE]
    /\ opens' = opens + 1

\* variant: the transport is not released
CloseSer_Leak ==
    /\ nOpen' = nOpen
    /\ ser' = ser

\* __exit__ of the with block
CloseSer ==
    /\ nOpen' = IF nOpen > 0 THEN nOpen - 1 ELSE 0
    /\ ser' = Closed

WriteSer(out) ==
    writes' = Append(writes, [pkt |-> out, baud |-> ser.baud, dtr |-> ser.dtr, rts |-> ser.rts])

\* a call made for the current candidate
Did(op) == trail' = Append(trail, op)

\* an operation counted after the accepting read of test_serial_port
CountAfterHit == afterHit' = IF hit # NoHit THEN afterHit + 1 ELSE afterHit

\* `if response:` - a bytes object is true when it is not empty
Truthy(response) == response # "empty"

Responses == {"bytes", "empty"}

\* ---------------------------------------------------------------- main, before discovery
\* identify_device is entered: serial.tools.list_ports.comports() returns the port list
Enumerate ==
    /\ pc = "m_enumerate"
    /\ ports' \in PortLists
    /\ pc' = "m_identify"
    /\ UNCHANGED <<port, access, bi, ci, nOpen, ser, settings, sequence, ki, xi, status,
                   writes, opens, discFaults, lastFault, hit, afterHit, reads,
                   seqFault, advances, arg, ret, trail, crcRun>>

\* port = identify_device(); if not port: return 1
Identify ==
    /\ pc = "m_identify"
    /\ port' = identify_device(ports)
    /\ ports' = ports
    /\ IF port' = None
       THEN /\ status' = 1
            /\ pc' = "exit"
       ELSE /\ status' = status
            /\ pc' = "m_udev"
    /\ UNCHANGED <<access, bi, ci, nOpen, ser, settings, sequence, ki, xi,
                   writes, opens, discFaults, lastFault, hit, afterHit, reads,
                   seqFault, advances, arg, ret, trail, crcRun>>

\* create_udev_rule() logs its own failure and returns normally
CreateUdevRule ==
    /\ pc = "m_udev"
    /\ pc' = "d_access"
    /\ ports' = <<>>
    /\ UNCHANGED <<port, access, bi, ci, nOpen, ser, settings, sequence, ki, xi,
                   status, writes, opens, discFaults, lastFault, hit, afterHit, reads,
                   seqFault, advances, arg, ret, trail, crcRun>>

\* ---------------------------------------------------------------- test_serial_port
dKeep == <<ports, port, sequence, ki, xi, status, reads, seqFault, advances, arg, ret, crcRun>>

\* variant: a failed remediation or a failing check ends test_serial_port with None
CheckAccess_Fatal ==
    /\ pc = "d_access"
    /\ \E o \in AccessOutcomes :
          /\ access' = o
          /\ IF o \in {"granted", "remediated"}
             THEN bi' = 1 /\ pc' = "d_open"
             ELSE bi' = 0 /\ pc' = "m_check"
    /\ UNCHANGED <<ci, nOpen, ser, settings, writes, opens, discFaults, lastFault, hit, afterHit,
                   trail>>
    /\ UNCHANGED dKeep

\* os.access / sudo usermod / sudo chmod, every exception swallowed; then the baud loop starts
CheckAccess ==
    /\ pc = "d_access"
    /\ \E o \in AccessOutcomes : access' = o
    /\ bi' = 1
    /\ pc' = "d_open"
    /\ UNCHANGED <<ci, nOpen, ser, settings, writes, opens, discFaults, lastFault, hit, afterHit,
                   trail>>
    /\ UNCHANGED dKeep

\* logger.warning(...); return None  (and settings = test_serial_port(port) in main)
ReturnNone ==
    /\ settings' = NoSettings
    /\ access' = None
    /\ bi' = 0
    /\ ci' = 0
    /\ pc' = "m_check"

\* variant: the try statement encloses the baud loop, a fault ends the search
FaultResume_Abort(b, c) == <<Len(baud_rates) + 1, 0>>

\* where the search resumes after the except clause: the next iteration of the baud loop
FaultResume(b, c) == <<b + 1, 0>>

\* variant: no except clause, the exception leaves test_serial_port and ends main
DiscCaught_Propagate ==
    /\ discFaults < MaxDiscFaults
    /\ discFaults' = discFaults + 1
    /\ lastFault' = <<bi, ci>>
    /\ CloseSer
    /\ status' = 1
    /\ pc' = "exit"
    /\ trail' = <<>>
    /\ UNCHANGED <<access, bi, ci, settings, writes, opens, hit, afterHit>>
    /\ UNCHANGED <<ports, port, sequence, ki, xi, reads, seqFault, advances, arg, ret, crcRun>>

\* an exception inside the try: the with block closes the transport, the except clause logs
DiscCaught ==
    /\ discFaults < MaxDiscFaults
    /\ discFaults' = discFaults + 1
    /\ lastFault' = <<bi, ci>>
    /\ CloseSer
    /\ LET r == FaultResume(bi, ci)
       IN  IF r[1] <= Len(baud_rates)
           THEN /\ bi' = r[1]
                /\ ci' = r[2]
                /\ pc' = "d_open"
                /\ UNCHANGED <<settings, access>>
           ELSE ReturnNone
    /\ trail' = <<>>
    /\ UNCHANGED <<writes, opens, hit, afterHit>>
    /\ UNCHANGED dKeep

\* variant: dtr and rts exchanged in the returned dictionary
Accept_SwappedLines ==
    /\ settings' = [port |-> port, baudrate |-> baud_rates[bi],
                    dtr |-> configurations[ci][2], rts |-> configurations[ci][1]]
    /\ access' = None
    /\ CloseSer
    /\ bi' = 0
    /\ ci' = 0
    /\ pc' = "m_check"

\* return {'port': port_name, 'baudrate': baud, 'dtr': dtr, 'rts': rts} out of the with block
Accept ==
    /\ settings' = [port |-> port, baudrate |-> baud_rates[bi],
                    dtr |-> configurations[ci][1], rts |-> configurations[ci][2]]
    /\ access' = None
    /\ CloseSer
    /\ bi' = 0
    /\ ci' = 0
    /\ pc' = "m_check"

\* variant: the transport is left open when the inner loop is exhausted
NextCandidate_KeepOpen ==
    IF ci < Len(configurations)
    THEN /\ ci' = ci + 1
         /\ pc' = "d_dtr"
         /\ UNCHANGED <<bi, nOpen, ser, settings, access>>
    ELSE /\ UNCHANGED <<nOpen, ser>>
         /\ IF bi < Len(baud_rates)
            THEN /\ bi' = bi + 1
                 /\ ci' = 0
                 /\ pc' = "d_open"
                 /\ UNCHANGED <<settings, access>>
            ELSE ReturnNone

\* end of one iteration of "for dtr, rts in configurations" without a response
NextCandidate ==
    IF ci < Len(configurations)
    THEN /\ ci' = ci + 1
         /\ pc' = "d_dtr"
         /\ UNCHANGED <<bi, nOpen, ser, settings, access>>
    ELSE /\ CloseSer
         /\ IF bi < Len(baud_rates)
            THEN /\ bi' = bi + 1
                 /\ ci' = 0
                 /\ pc' = "d_open"
                 /\ UNCHANGED <<settings, access>>
            ELSE ReturnNone

\* a step of the inner loop that only moves on
DiscStep(from, to, op) ==
    /\ pc = from
    /\ \/ /\ pc' = to
          /\ Did(op)
          /\ UNCHANGED <<access, bi, ci, nOpen, ser, settings, writes, opens, discFaults,
                         lastFault, hit, afterHit>>
          /\ UNCHANGED dKeep
       \/ DiscCaught

\* with serial.Serial(port=port_name, baudrate=baud, ..., timeout=2) as ser:
DiscOpen ==
    /\ pc = "d_open"
    /\ \/ /\ OpenSer(port, baud_rates[bi])
          /\ CountAfterHit
          /\ ci' = 1
          /\ pc' = "d_dtr"
          /\ trail' = <<>>
          /\ UNCHANGED <<access, bi, settings, writes, discFaults, lastFault, hit>>
          /\ UNCHANGED dKeep
       \/ DiscCaught

\* ser.dtr = dtr
DiscSetDtr ==
    /\ pc = "d_dtr"
    /\ \/ /\ ser' = [ser EXCEPT !.dtr = configurations[ci][1]]
          /\ CountAfterHit
          /\ pc' = "d_rts"
          /\ trail' = <<"dtr">>
          /\ UNCHANGED <<access, bi, ci, nOpen, settings, writes, opens, discFaults,
                         lastFault, hit>>
          /\ UNCHANGED dKeep
       \/ DiscCaught

\* ser.rts = rts
DiscSetRts ==
    /\ pc = "d_rts"
    /\ \/ /\ ser' = [ser EXCEPT !.rts = configurations[ci][2]]
          /\ CountAfterHit
          /\ pc' = "d_settle"
          /\ Did("rts")
          /\ UNCHANGED <<access, bi, ci, nOpen, settings, writes, opens, discFaults,
                         lastFault, hit>>
          /\ UNCHANGED dKeep
       \/ DiscCaught

\* variant: no settle delay between the line change and the buffer clears
DiscSettle_Skipped ==
    /\ pc = "d_settle"
    /\ pc' = "d_flush_in1"
    /\ UNCHANGED <<access, bi, ci, nOpen, ser, settings, writes, opens, discFaults,
                   lastFault, hit, afterHit, trail>>
    /\ UNCHANGED dKeep

\* time.sleep(0.5)
DiscSettle ==
    /\ pc = "d_settle"
    /\ pc' = "d_flush_in1"
    /\ Did("sleep")
    /\ UNCHANGED <<access, bi, ci, nOpen, ser, settings, writes, opens, discFaults,
                   lastFault, hit, afterHit>>
    /\ UNCHANGED dKeep

\* ser.reset_input_buffer() / ser.reset_output_buffer() before SYNC
DiscFlushIn1 == DiscStep("d_flush_in1", "d_flush_out1", "flush_in")

DiscFlushOut1 == DiscStep("d_flush_out1", "d_write_sync", "flush_out")

\* a probe packet is written
DiscWrite(from, to, command) ==
    /\ pc = from
    /\ \/ /\ WriteSer(create_ssp_packet(command, DEFAULT_SEQUENCE, <<>>))
          /\ CountAfterHit
          /\ pc' = to
          /\ Did("write")
          /\ UNCHANGED <<access, bi, ci, nOpen, ser, settings, opens, discFaults,
                         lastFault, hit>>
          /\ UNCHANGED dKeep
       \/ DiscCaught

\* sync_packet = create_ssp_packet(CMD_SYNC); ser.write(sync_packet)
DiscWriteSync == DiscWrite("d_write_sync", "d_read_sync", CMD_SYNC)

\* variant: an unanswered SYNC ends the candidate, no RESET is tried
DiscReadSync_NoFallback ==
    /\ pc = "d_read_sync"
    /\ \/ /\ \E response \in Responses :
                /\ hit' = IF response = "bytes" /\ hit = NoHit THEN ser ELSE hit
                /\ IF Truthy(response) THEN Accept ELSE NextCandidate
          /\ Did("read")
          /\ UNCHANGED <<writes, opens, discFaults, lastFault, afterHit>>
          /\ UNCHANGED dKeep
       \/ DiscCaught

\* response = ser.read(64); if response: return {...}
DiscReadSync ==
    /\ pc = "d_read_sync"
    /\ \/ /\ \E response \in Responses :
                /\ hit' = IF response = "bytes" /\ hit = NoHit THEN ser ELSE hit
                /\ IF Truthy(response)
                   THEN Accept
                   ELSE /\ pc' = "d_flush_in2"
                        /\ UNCHANGED <<bi, ci, nOpen, ser, settings, access>>
          /\ Did("read")
          /\ UNCHANGED <<writes, opens, discFaults, lastFault, afterHit>>
          /\ UNCHANGED dKeep
       \/ DiscCaught

\* ser.reset_input_buffer() / ser.reset_output_buffer() before RESET
DiscFlushIn2 == DiscStep("d_flush_in2", "d_flush_out2", "flush_in")

DiscFlushOut2 == DiscStep("d_flush_out2", "d_write_reset", "flush_out")

\* reset_packet = create_ssp_packet(CMD_RESET); ser.write(reset_packet)
DiscWriteReset == DiscWrite("d_write_reset", "d_read_reset", CMD_RESET)

\* response = ser.read(64); if response: return {...}; otherwise the loops go on
DiscReadReset ==
    /\ pc = "d_read_reset"
    /\ \/ /\ \E response \in Responses :
                /\ hit' = IF response = "bytes" /\ hit = NoHit THEN ser ELSE hit
                /\ IF Truthy(response) THEN Accept ELSE NextCandidate
          /\ Did("read")
          /\ UNCHANGED <<writes, opens, discFaults, lastFault, afterHit>>
          /\ UNCHANGED dKeep
       \/ DiscCaught

\* ---------------------------------------------------------------- main, command run
sKeep == <<ports, port, access, bi, ci, settings, discFaults, lastFault, hit, afterHit,
           arg, ret, trail, crcRun>>

\* if not settings: return 1; otherwise the command run starts
MainCheckSettings ==
    /\ pc = "m_check"
    /\ IF settings = NoSettings
       THEN /\ status' = 1
            /\ pc' = "exit"
            /\ UNCHANGED <<writes, opens, trail>>
       ELSE /\ status' = status
            /\ pc' = "s_open"
            /\ writes' = <<>>
            /\ opens' = 0
            /\ trail' = <<>>
    /\ UNCHANGED <<nOpen, ser, sequence, ki, xi, reads, seqFault, advances>>
    /\ UNCHANGED <<ports, port, access, bi, ci, settings, discFaults, lastFault, hit, afterHit,
                   arg, ret, crcRun>>

\* variant: the except clause of main falls through to "return 0"
SeqCaught_StatusZero ==
    /\ CloseSer
    /\ seqFault' = TRUE
    /\ status' = 0
    /\ pc' = "exit"
    /\ UNCHANGED <<sequence, ki, xi, writes, opens, reads, advances>>
    /\ UNCHANGED sKeep

\* variant: the exception is caught around the single operation and the run goes on
SeqCaught_Continue ==
    /\ seqFault = FALSE
    /\ seqFault' = TRUE
    /\ UNCHANGED <<pc, nOpen, ser, status, sequence, ki, xi, writes, opens, reads, advances>>
    /\ UNCHANGED sKeep

\* an exception inside the try of main: the with block closes the transport; return 1
SeqCaught ==
    /\ CloseSer
    /\ seqFault' = TRUE
    /\ status' = 1
    /\ pc' = "exit"
    /\ UNCHANGED <<sequence, ki, xi, writes, opens, reads, advances>>
    /\ UNCHANGED sKeep

\* with serial.Serial(port=settings['port'], baudrate=settings['baudrate'], ...) as ser:
SeqOpen ==
    /\ pc = "s_open"
    /\ \/ /\ OpenSer(settings.port, settings.baudrate)
          /\ pc' = "s_dtr"
          /\ UNCHANGED <<sequence, ki, xi, status, writes, reads, seqFault, advances>>
          /\ UNCHANGED sKeep
       \/ SeqCaught

\* ser.dtr = settings['dtr']
SeqSetDtr ==
    /\ pc = "s_dtr"
    /\ \/ /\ ser' = [ser EXCEPT !.dtr = settings.dtr]
          /\ pc' = "s_rts"
          /\ UNCHANGED <<nOpen, sequence, ki, xi, status, writes, opens, reads,
                         seqFault, advances>>
          /\ UNCHANGED sKeep
       \/ SeqCaught

\* variant: RTS is driven from the discovered DTR level
SeqSetRts_FromDtr ==
    /\ pc = "s_rts"
    /\ \/ /\ ser' = [ser EXCEPT !.rts = settings.dtr]
          /\ pc' = "s_flush_in"
          /\ UNCHANGED <<nOpen, sequence, ki, xi, status, writes, opens, reads,
                         seqFault, advances>>
          /\ UNCHANGED sKeep
       \/ SeqCaught

\* ser.rts = settings['rts']
SeqSetRts ==
    /\ pc = "s_rts"
    /\ \/ /\ ser' = [ser EXCEPT !.rts = settings.rts]
          /\ pc' = "s_flush_in"
          /\ UNCHANGED <<nOpen, sequence, ki, xi, status, writes, opens, reads,
                         seqFault, advances>>
          /\ UNCHANGED sKeep
       \/ SeqCaught

\* ser.reset_input_buffer()
SeqFlushIn ==
    /\ pc = "s_flush_in"
    /\ \/ /\ pc' = "s_flush_out"
          /\ UNCHANGED <<nOpen, ser, sequence, ki, xi, status, writes, opens, reads,
                         seqFault, advances>>
          /\ UNCHANGED sKeep
       \/ SeqCaught

\* ser.reset_output_buffer(); sequence = 0x80; the loop over commands starts
SeqFlushOut ==
    /\ pc = "s_flush_out"
    /\ \/ /\ sequence' = DEFAULT_SEQUENCE
          /\ ki' = 1
          /\ pc' = "s_write"
          /\ UNCHANGED <<nOpen, ser, xi, status, writes, opens, reads, seqFault,
                         advances>>
          /\ UNCHANGED sKeep
       \/ SeqCaught

\* packet = create_ssp_packet(cmd, sequence); ser.write(packet); time.sleep(0.5)
SeqWrite ==
    /\ pc = "s_write"
    /\ \/ /\ WriteSer(create_ssp_packet(commands[ki], sequence, <<>>))
          /\ pc' = "s_read"
          /\ UNCHANGED <<nOpen, ser, sequence, ki, xi, status, opens, reads,
                         seqFault, advances>>
          /\ UNCHANGED sKeep
       \/ SeqCaught

\* variant: the sequence byte is not advanced at the end of the loop body
LoopEnd_NoAdvance ==
    /\ sequence' = sequence
    /\ advances' = advances + 1
    /\ xi' = 0
    /\ IF ki < Len(commands)
       THEN /\ ki' = ki + 1
            /\ pc' = "s_write"
            /\ UNCHANGED <<nOpen, ser, status>>
       ELSE /\ ki' = ki
            /\ CloseSer
            /\ status' = 0
            /\ pc' = "exit"

\* sequence = 0x80 | ((sequence + 1) & 0x7F), then the next command or the end of the run
LoopEnd ==
    /\ sequence' = AdvanceSequence(sequence)
    /\ advances' = advances + 1
    /\ xi' = 0
    /\ IF ki < Len(commands)
       THEN /\ ki' = ki + 1
            /\ pc' = "s_write"
            /\ UNCHANGED <<nOpen, ser, status>>
       ELSE /\ ki' = ki
            /\ CloseSer
            /\ status' = 0
            /\ pc' = "exit"

\* variant: the test on the command is missing
WantsExtraPolls_AnyCommand(cmd, response) == Truthy(response)

\* `if cmd == CMD_POLL:` under `if response:`
WantsExtraPolls(cmd, response) == Truthy(response) /\ cmd = CMD_POLL

\* response = ser.read(64) and the branches on it
SeqRead ==
    /\ pc = "s_read"
    /\ \/ /\ \E response \in Responses :
                /\ reads' = Append(reads, response)
                /\ IF WantsExtraPolls(commands[ki], response)
                   THEN /\ xi' = 0
                        /\ pc' = "s_poll_write"
                        /\ UNCHANGED <<nOpen, ser, sequence, ki, status, advances>>
                   ELSE LoopEnd
          /\ UNCHANGED <<writes, opens, seqFault>>
          /\ UNCHANGED sKeep
       \/ SeqCaught

\* poll_packet = create_ssp_packet(CMD_POLL, 0x80 | ((sequence + i + 1) & 0x7F)); ser.write(poll_packet)
PollWrite ==
    /\ pc = "s_poll_write"
    /\ \/ /\ WriteSer(create_ssp_packet(CMD_POLL, ExtraPollSequence(sequence, xi), <<>>))
          /\ pc' = "s_poll_read"
          /\ UNCHANGED <<nOpen, ser, sequence, ki, xi, status, opens, reads,
                         seqFault, advances>>
          /\ UNCHANGED sKeep
       \/ SeqCaught

\* poll_response = ser.read(64); the outcome is only logged
PollRead ==
    /\ pc = "s_poll_read"
    /\ \/ /\ \E response \in Responses :
                /\ reads' = Append(reads, response)
          /\ IF xi + 1 < EXTRA_POLLS
             THEN /\ xi' = xi + 1
                  /\ pc' = "s_poll_write"
                  /\ UNCHANGED <<nOpen, ser, sequence, ki, status, advances>>
             ELSE LoopEnd
          /\ UNCHANGED <<writes, opens, seqFault>>
          /\ UNCHANGED sKeep
       \/ SeqCaught

Next ==
    \/ Enumerate
    \/ Identify
    \/ CreateUdevRule
    \/ CheckAccess
    \/ DiscOpen
    \/ DiscSetDtr
    \/ DiscSetRts
    \/ DiscSettle
    \/ DiscFlushIn1
    \/ DiscFlushOut1
    \/ DiscWriteSync
    \/ DiscReadSync
    \/ DiscFlushIn2
    \/ DiscFlushOut2
    \/ DiscWriteReset
    \/ DiscReadReset
    \/ MainCheckSettings
    \/ SeqOpen
    \/ SeqSetDtr
    \/ SeqSetRts
    \/ SeqFlushIn
    \/ SeqFlushOut
    \/ SeqWrite
    \/ SeqRead
    \/ PollWrite
    \/ PollRead

Spec == Init /\ [][Next]_vars

TypeOK ==
    /\ nOpen \in 0..1
    /\ status \in {Running, 0, 1}
    /\ bi \in 0..Len(baud_rates)
    /\ ci \in 0..Len(configurations)

\* ---------------------------------------------------------------- frame codec on its own
CommandBytes == {CMD_SYNC, CMD_SETUP_REQUEST, CMD_ENABLE, CMD_DISABLE, CMD_POLL, CMD_RESET, 0, 255}
SequenceBytes == {0, 128, 129, 255}
SampleBytes == {0, 127, 255}
LongLengths == {253, 254, 255}

\* a payload of n bytes that runs through all byte values
Pattern(n) == [i \in 1..n |-> (i * 37) % 256]

DataInputs ==
    UNION { [1..n -> SampleBytes] : n \in 0..MaxDataLen } \cup { Pattern(n) : n \in LongLengths }

CodecInit == Start("codec", Unset)

\* one call create_ssp_packet(command, sequence, data)
BuildPacket ==
    /\ pc = "codec"
    /\ \E c \in CommandBytes, s \in SequenceBytes, d \in DataInputs :
          /\ arg' = [command |-> c, sequence |-> s, data |-> d]
          /\ ret' = create_ssp_packet(c, s, d)
    /\ pc' = "codec_done"
    /\ UNCHANGED <<ports, port, access, bi, ci, nOpen, ser, settings, sequence, ki, xi,
                   status, writes, opens, discFaults, lastFault, hit, afterHit, reads,
                   seqFault, advances, trail, crcRun>>

CodecNext == BuildPacket

CodecSpec == CodecInit /\ [][CodecNext]_vars

\* ---------------------------------------------------------------- sequence byte on its own
ToggleInit == Start("toggle", DEFAULT_SEQUENCE)

\* sequence = 0x80 | ((sequence + 1) & 0x7F), applied over and over
Advance ==
    /\ pc = "toggle"
    /\ advances < MaxAdvances
    /\ sequence' = AdvanceSequence(sequence)
    /\ advances' = advances + 1
    /\ UNCHANGED <<pc, ports, port, access, bi, ci, nOpen, ser, settings, ki, xi,
                   status, writes, opens, discFaults, lastFault, hit, afterHit, reads,
                   seqFault, arg, ret, trail, crcRun>>

ToggleNext == Advance

ToggleSpec == ToggleInit /\ [][ToggleNext]_vars

\* ---------------------------------------------------------------- calculate_crc on its own
\* the checksum loop followed statement by statement on byte lists of bounded length
CrcBytes == {0, 1, 128, 255}
ProbeHeads == { <<STX, DEFAULT_SEQUENCE, 1, CMD_SYNC>>, <<STX, DEFAULT_SEQUENCE, 1, CMD_RESET>> }

CrcInputs == UNION { [1..n -> CrcBytes] : n \in 0..MaxCrcLen } \cup ProbeHeads

CrcInit == Start("crc_start", Unset)

cKeep == <<ports, port, access, bi, ci, nOpen, ser, settings, sequence, ki, xi, status,
           writes, opens, discFaults, lastFault, hit, afterHit, reads, seqFault, advances,
           arg, ret, trail>>

\* crc = 0xFFFF
CrcBegin ==
    /\ pc = "crc_start"
    /\ \E d \in CrcInputs : crcRun' = [data |-> d, i |-> 0, n |-> 0, reg |-> 65535]
    /\ pc' = "crc_loop"
    /\ UNCHANGED cKeep

\* for b in data: crc ^= b
CrcXorByte ==
    /\ pc = "crc_loop"
    /\ crcRun.i < Len(crcRun.data)
    /\ crcRun' = [crcRun EXCEPT !.i = crcRun.i + 1, !.n = 0,
                                !.reg = BitXor(crcRun.reg, crcRun.data[crcRun.i + 1])]
    /\ pc' = "crc_bits"
    /\ UNCHANGED cKeep

\* for _ in range(8): one pass of the body
CrcBit ==
    /\ pc = "crc_bits"
    /\ crcRun' = [crcRun EXCEPT !.n = crcRun.n + 1, !.reg = CrcShift(crcRun.reg)]
    /\ pc' = IF crcRun.n + 1 = 8 THEN "crc_loop" ELSE "crc_bits"
    /\ UNCHANGED cKeep

\* return crc
CrcReturn ==
    /\ pc = "crc_loop"
    /\ crcRun.i = Len(crcRun.data)
    /\ pc' = "crc_done"
    /\ UNCHANGED <<crcRun>>
    /\ UNCHANGED cKeep

CrcNext == CrcBegin \/ CrcXorByte \/ CrcBit \/ CrcReturn

CrcSpec == CrcInit /\ [][CrcNext]_vars

\* ---------------------------------------------------------------- properties
DiscPcs == {"d_access", "d_open", "d_dtr", "d_rts", "d_settle", "d_flush_in1", "d_flush_out1",
            "d_write_sync", "d_read_sync", "d_flush_in2", "d_flush_out2", "d_write_reset",
            "d_read_reset"}
SeqPcs == {"s_open", "s_dtr", "s_rts", "s_flush_in", "s_flush_out", "s_write", "s_read",
           "s_poll_write", "s_poll_read"}

\* the command run has been entered
InRun == pc \in SeqPcs \/ (pc = "exit" /\ settings # NoSettings)

\* the probe packets as they appear on the wire
SyncProbe == <<127, 128, 1, 17, 161, 255>>
ResetProbe == <<127, 128, 1, 1, 32, 239>>

\* C1: when the first read that returns bytes happens at some candidate and discovery has
\* caught no fault, test_serial_port has returned: it is no longer running, its result is
\* the input port with exactly the baud, DTR and RTS of the transport at that read, and no
\* open, line change or write was made after that read.
C1_EarlyExit ==
    (hit # NoHit /\ discFaults = 0) =>
        /\ pc \notin DiscPcs
        /\ settings = [port |-> port, baudrate |-> hit.baud, dtr |-> hit.dtr, rts |-> hit.rts]
        /\ afterHit = 0

C1_Witness ==
    /\ pc = "m_check"
    /\ discFaults = 0
    /\ hit = [port |-> port, baud |-> 38400, dtr |-> TRUE, rts |-> FALSE]
    /\ settings.baudrate = 38400
    /\ Len(writes) = 19

\* the 32 probes of an unanswered search, in order
ExpectedProbes ==
    [k \in 1..32 |->
        LET cand == (k - 1) \div 2
        IN  [pkt |-> IF k % 2 = 1 THEN SyncProbe ELSE ResetProbe,
             baud |-> <<9600, 19200, 38400, 115200>>[(cand \div 4) + 1],
             dtr |-> <<FALSE, TRUE, FALSE, TRUE>>[(cand % 4) + 1],
             rts |-> <<FALSE, FALSE, TRUE, TRUE>>[(cand % 4) + 1]]]

\* C2: when test_serial_port returns "not found" after a search in which no read returned
\* bytes and nothing faulted, exactly 32 packets were written: SYNC then RESET for each of
\* the 16 candidates, baud-major, handshake order (F,F), (T,F), (F,T), (T,T).
C2_Exhaustion ==
    (pc = "m_check" /\ discFaults = 0 /\ settings = NoSettings) => writes = ExpectedProbes

C2_Witness ==
    /\ pc = "m_check"
    /\ discFaults = 0
    /\ settings = NoSettings
    /\ Len(writes) = 32
    /\ opens = 4

\* the candidate a position of the loops stands for; at the open it is the first of the baud
Cand(b, c) == <<b, IF c = 0 THEN 1 ELSE c>>
SuccCand(k) == IF k[2] < 4 THEN <<k[1], k[2] + 1>> ELSE <<k[1] + 1, 1>>

\* C3 as stated, for the faults raised inside a candidate (line set, flush, write, read): the
\* fault costs that candidate only, the search goes on with the very next candidate (or ends
\* when it was the last one).
C3_FaultCostsOneCandidate ==
    [][(discFaults' = discFaults + 1 /\ ci >= 1) =>
          IF pc' = "m_check"
          THEN SuccCand(Cand(bi, ci)) = <<Len(baud_rates) + 1, 1>>
          ELSE Cand(bi', ci') = SuccCand(Cand(bi, ci))]_vars

\* C3 amended: a fault at any step of a baud rate (open, line set, flush, write, read) closes
\* the transport and ends the probing of that baud rate; the search goes on with the open for
\* the first handshake configuration of the next baud rate, and returns "not found" when the
\* fault was at the last baud rate.
C3_FaultCostsRestOfBaud ==
    [][discFaults' = discFaults + 1 =>
          /\ nOpen' = 0
          /\ writes' = writes
          /\ IF bi < Len(baud_rates)
             THEN pc' = "d_open" /\ bi' = bi + 1 /\ ci' = 0
             ELSE pc' = "m_check" /\ settings' = NoSettings]_vars

C3_Witness ==
    /\ discFaults = 1
    /\ lastFault = <<1, 2>>
    /\ pc = "d_write_sync"
    /\ bi = 2
    /\ ci = 1
    /\ Len(writes) = 3

\* C4: at most one transport is open at any time; none is open where a transport is about
\* to be opened, where test_serial_port has returned, or where main has returned.
C4_ScopedOwnership ==
    /\ nOpen <= 1
    /\ pc \in {"m_enumerate", "m_identify", "m_udev", "d_access", "d_open", "m_check",
               "s_open", "exit"} => nOpen = 0

C4_Witness ==
    /\ pc = "exit"
    /\ seqFault
    /\ discFaults >= 1
    /\ opens = 1
    /\ Len(writes) = 2
    /\ nOpen = 0

\* the command run wrote all its packets and read after each
RanToEnd == ki = Len(commands) /\ Len(reads) = Len(writes) /\ Len(writes) \in {4, 7}

\* C5: main has a status exactly when it has returned; the status is 0 exactly when a device
\* was found, discovery returned a configuration and the command run reached its end without
\* a fault, and 1 otherwise - whatever the reads of the run returned.
C5_ExitStatus ==
    /\ (pc = "exit") <=> (status # Running)
    /\ pc = "exit" =>
          /\ status \in {0, 1}
          /\ status = 0 <=> (port # None /\ settings # NoSettings /\ ~seqFault /\ RanToEnd)

C5_Witness ==
    /\ pc = "exit"
    /\ status = 0
    /\ reads = <<"empty", "empty", "empty", "empty">>

\* C6: in a command run without a fault the k-th main packet carries command
\* SYNC, SETUP_REQUEST, ENABLE, POLL and sequence byte 0x80, 0x81, 0x82, 0x83 for k = 1..4,
\* and the sequence variable is 0x80 plus the number of main commands completed, whatever
\* their reads returned: it is advanced once per command and never set back.
C6_CommandOrder ==
    (InRun /\ ~seqFault) =>
        /\ \A k \in 1..Len(writes) :
              k <= 4 => /\ writes[k].pkt[4] = <<17, 5, 10, 7>>[k]
                        /\ writes[k].pkt[2] = 127 + k
        /\ sequence = IF pc \in {"s_open", "s_dtr", "s_rts", "s_flush_in", "s_flush_out"} THEN Unset
                      ELSE IF pc = "exit" THEN 132
                      ELSE 127 + ki

C6_Witness ==
    /\ pc = "exit"
    /\ ~seqFault
    /\ reads = <<"bytes", "empty", "bytes", "empty">>
    /\ Len(writes) = 4
    /\ sequence = 132

\* C7: in a command run without a fault, packets beyond the fourth exist only when the read
\* after the main POLL returned bytes; they follow that read directly, they are POLL packets
\* with sequence bytes 0x84, 0x85, 0x86, and all three are written whatever their own reads
\* return, so a finished run has written 7 packets when the main POLL was answered and 4
\* otherwise.
C7_ExtraPolls ==
    (InRun /\ ~seqFault) =>
        /\ Len(reads) <= Len(writes)
        /\ Len(writes) <= Len(reads) + 1
        /\ \A k \in 5..Len(writes) :
              /\ writes[k].pkt[4] = 7
              /\ writes[k].pkt[2] = 127 + k
        /\ Len(writes) > 4 => reads[4] = "bytes"
        /\ (Len(reads) = 4 /\ reads[4] = "bytes") =>
              pc = IF Len(writes) = 4 THEN "s_poll_write" ELSE "s_poll_read"
        /\ pc = "exit" => Len(writes) = IF reads[4] = "bytes" THEN 7 ELSE 4

C7_Witness ==
    /\ pc = "exit"
    /\ status = 0
    /\ reads = <<"empty", "empty", "empty", "bytes", "empty", "empty", "empty">>
    /\ Len(writes) = 7
    /\ writes[7].pkt[2] = 134

\* C8: the step in which main catches a transport fault writes nothing, leaves no transport
\* open and makes main return 1; and once main has returned no step follows, so no packet
\* is written and no operation is tried again after the fault.
C8_SeqFaultFatal ==
    [][/\ pc # "exit"
       /\ seqFault' => (pc' = "exit" /\ status' = 1 /\ nOpen' = 0 /\ writes' = writes)]_vars

C8_Witness ==
    /\ pc = "exit"
    /\ seqFault
    /\ status = 1
    /\ Len(writes) = 5
    /\ Len(reads) = 4
    /\ nOpen = 0

\* C9: for a command byte, a sequence byte and at most 254 data bytes, create_ssp_packet
\* returns 0x7F, sequence, len(data)+1, command, the data and the two checksum bytes, low
\* byte first, of everything before them; the packet is len(data)+6 bytes long.
C9_PacketFraming ==
    (pc = "codec_done" /\ Len(arg.data) <= 254) =>
        LET d == arg.data
            n == Len(ret)
            crc == calculate_crc(SubSeq(ret, 1, n - 2))
        IN  /\ ret # ValueError
            /\ n = Len(d) + 6
            /\ SubSeq(ret, 1, n - 2) = <<127, arg.sequence, Len(d) + 1, arg.command>> \o d
            /\ ret[3] = Len(d) + 1
            /\ ret[n - 1] = crc % 256
            /\ ret[n] = (crc \div 256) % 256

C9_Witness ==
    /\ pc = "codec_done"
    /\ Len(arg.data) = 254
    /\ Len(ret) = 260
    /\ ret[3] = 255
    /\ ret[259] # ret[260]

\* C10: after n advances from 0x80 the sequence byte is 0x80 + (n mod 128): it runs through
\* 0x80 .. 0xFF and wraps to 0x80, always has bit 0x80 set, fits a byte, and its low bit is
\* the parity of n.
C10_SequenceToggling ==
    pc = "toggle" =>
        /\ sequence = 128 + (advances % 128)
        /\ sequence \in 128..255
        /\ sequence % 2 = advances % 2

C10_Witness ==
    /\ pc = "toggle"
    /\ advances = 128
    /\ sequence = 128

\* ---------------------------------------------------------------- checksum properties
\* the procedure in words: the register starts at 0xFFFF; each byte is XORed into the low
\* byte of the register; then eight times the register is shifted right by one bit and,
\* when the bit shifted out was set, XORed with 0x8408 (bits 15, 10 and 3); no final XOR
Bit(x, k) == (x \div (2 ^ k)) % 2

Toggle(x, k) == IF Bit(x, k) = 1 THEN x - 2 ^ k ELSE x + 2 ^ k

RefXorLow(r, b) ==
    LET low == [k \in 0..7 |-> ((Bit(r, k) + Bit(b, k)) % 2) * 2 ^ k]
    IN  (r \div 256) * 256 + low[0] + low[1] + low[2] + low[3] + low[4] + low[5] + low[6] + low[7]

RefShift(r) ==
    IF r % 2 = 1 THEN Toggle(Toggle(Toggle(r \div 2, 15), 10), 3) ELSE r \div 2

RECURSIVE RefBits(_, _)
RefBits(r, n) ==
    IF n = 0 THEN r
    ELSE LET shifted == RefShift(r)
         IN  IF shifted >= 0 THEN RefBits(shifted, n - 1) ELSE shifted

RECURSIVE RefCrcUpTo(_, _)
RefCrcUpTo(data, k) ==
    IF k = 0 THEN 65535
    ELSE LET before == RefCrcUpTo(data, k - 1)
         IN  IF before >= 0 THEN RefBits(RefXorLow(before, data[k]), 8) ELSE before

RefCrc(data) == RefCrcUpTo(data, Len(data))

CrcPcs == {"crc_loop", "crc_bits", "crc_done"}

\* C11: the register of calculate_crc starts at 0xFFFF and stays within 0..0xFFFF after
\* every statement; the returned value is the one the procedure in words gives, it is the
\* value the frame codec uses, and for the empty list it is 0xFFFF
C11_CrcRegister ==
    /\ pc \in CrcPcs => crcRun.reg \in 0..65535
    /\ (pc = "crc_loop" /\ crcRun.i = 0) => crcRun.reg = 65535
    /\ pc = "crc_loop" => crcRun.reg = RefCrcUpTo(crcRun.data, crcRun.i)
    /\ pc = "crc_done" =>
          /\ crcRun.reg = RefCrc(crcRun.data)
          /\ crcRun.reg = calculate_crc(crcRun.data)
          /\ crcRun.data = <<>> => crcRun.reg = 65535

\* the checksum of the SYNC probe head has been returned: 0xFFA1
C11_Witness ==
    /\ pc = "crc_done"
    /\ crcRun.data = <<STX, DEFAULT_SEQUENCE, 1, CMD_SYNC>>
    /\ crcRun.reg = 65441
    /\ crcRun.i = 4

\* ---------------------------------------------------------------- length field
\* C12: with command, sequence and data bytes all in 0..255, create_ssp_packet raises
\* exactly when data has more than 254 bytes; a returned packet has the length byte
\* len(data) + 1, never a wrapped value
C12_LengthCeiling ==
    pc = "codec_done" =>
        /\ (ret = ValueError) <=> (Len(arg.data) > 254)
        /\ ret # ValueError =>
              /\ Len(ret) = Len(arg.data) + 6
              /\ ret[3] = Len(arg.data) + 1
              /\ ret[3] \in 1..255

\* a call with 255 data bytes has raised
C12_Witness ==
    /\ pc = "codec_done"
    /\ Len(arg.data) = 255
    /\ IsByteList(arg.data)
    /\ ret = ValueError

\* ---------------------------------------------------------------- single-bit sensitivity
\* data with bit number pos inverted, bits counted from bit 0 of the first byte
FlipBit(data, pos) ==
    LET at == ((pos - 1) \div 8) + 1
    IN  [data EXCEPT ![at] = Toggle(data[at], (pos - 1) % 8)]

\* C13: for every byte list followed in CrcSpec and every bit position in it, the list
\* with that one bit inverted has a different calculate_crc value
C13_SingleBitFlip ==
    pc = "crc_done" =>
        \A pos \in 1..(8 * Len(crcRun.data)) :
            /\ calculate_crc(FlipBit(crcRun.data, pos)) # calculate_crc(crcRun.data)
            /\ calculate_crc(FlipBit(crcRun.data, pos)) # crcRun.reg

\* the checksum of a two-byte list has been returned and differs from that of the list
\* with the lowest bit of its first byte inverted
C13_Witness ==
    /\ pc = "crc_done"
    /\ crcRun.data = <<255, 1>>
    /\ crcRun.reg = 7921
    /\ FlipBit(crcRun.data, 1) = <<254, 1>>
    /\ calculate_crc(<<254, 1>>) # 7921

\* ---------------------------------------------------------------- device selection
\* positions of the enumerated entries with vendor ID 0x191c and product ID 0x4104
Matching == {i \in 1..Len(ports) : ports[i].vid = 6428 /\ ports[i].pid = 16644}

\* the value of identify_device is in port and the enumerated list is still in ports
Identified == pc = "m_udev" \/ (pc = "exit" /\ port = None)

\* C14: identify_device returns the device path of the first entry, in list order, whose
\* vendor ID is 0x191c and product ID is 0x4104, and None exactly when no entry matches
\* both; with None main returns 1 having opened no transport and written no probe
C14_DeviceSelection ==
    /\ Identified =>
          /\ (port = None) <=> (Matching = {})
          /\ Matching # {} =>
                \E i \in Matching :
                    /\ \A j \in Matching : i <= j
                    /\ port = ports[i].device
    /\ port = None =>
          /\ pc \in {"m_enumerate", "m_identify", "exit"}
          /\ opens = 0 /\ nOpen = 0 /\ ser = Closed
          /\ writes = <<>> /\ reads = <<>> /\ trail = <<>>
          /\ settings = NoSettings
          /\ pc = "exit" => status = 1

\* two entries match and the first one in list order has been selected
C14_Witness ==
    /\ pc = "m_udev"
    /\ Len(ports) = 2
    /\ Matching = {1, 2}
    /\ ports[1].device = "/dev/ttyUSB1"
    /\ ports[2].device = "/dev/ttyUSB0"
    /\ port = "/dev/ttyUSB1"

\* ---------------------------------------------------------------- RESET fallback
\* the transport as candidate (b, c) leaves it, and the record of a probe written there
LinesOf(b, c) ==
    [port |-> port, baud |-> baud_rates[b], dtr |-> configurations[c][1],
     rts |-> configurations[c][2]]

ProbeAt(probe, b, c) ==
    [pkt |-> probe, baud |-> baud_rates[b], dtr |-> configurations[c][1],
     rts |-> configurations[c][2]]

ResultAt(b, c) ==
    [port |-> port, baudrate |-> baud_rates[b], dtr |-> configurations[c][1],
     rts |-> configurations[c][2]]

\* the step is not a caught fault
NoFaultStep == discFaults' = discFaults

\* C15: at a candidate probed without a fault, the RESET probe is written exactly when the
\* read after SYNC returned no bytes: a non-empty SYNC read returns the candidate with no
\* RESET written, an empty one leads through the two buffer clears to the RESET write, which
\* happens on the unchanged transport under the candidate's baud, DTR and RTS; a non-empty
\* read after RESET returns that same candidate, and the loops move to another candidate
\* only from the read after RESET, when it returned no bytes either
C15_ResetFallback ==
    [][/\ (pc = "d_read_sync" /\ NoFaultStep) =>
              /\ writes' = writes
              /\ writes[Len(writes)] = ProbeAt(SyncProbe, bi, ci)
              /\ IF hit' = NoHit
                 THEN pc' = "d_flush_in2" /\ ser' = ser /\ bi' = bi /\ ci' = ci
                 ELSE pc' = "m_check" /\ settings' = ResultAt(bi, ci)
       /\ (pc \in {"d_flush_in2", "d_flush_out2"} /\ NoFaultStep) =>
              /\ pc' = IF pc = "d_flush_in2" THEN "d_flush_out2" ELSE "d_write_reset"
              /\ writes' = writes /\ ser' = ser /\ bi' = bi /\ ci' = ci
       /\ (pc = "d_write_reset" /\ NoFaultStep) =>
              /\ hit = NoHit
              /\ ser = LinesOf(bi, ci) /\ ser' = ser /\ bi' = bi /\ ci' = ci
              /\ writes[Len(writes)] = ProbeAt(SyncProbe, bi, ci)
              /\ writes' = Append(writes, ProbeAt(ResetProbe, bi, ci))
              /\ pc' = "d_read_reset"
       /\ (pc = "d_read_reset" /\ NoFaultStep) =>
              /\ writes' = writes
              /\ writes[Len(writes)] = ProbeAt(ResetProbe, bi, ci)
              /\ IF hit' = NoHit
                 THEN IF SuccCand(Cand(bi, ci)) = <<Len(baud_rates) + 1, 1>>
                      THEN pc' = "m_check" /\ settings' = NoSettings
                      ELSE Cand(bi', ci') = SuccCand(Cand(bi, ci))
                 ELSE pc' = "m_check" /\ settings' = ResultAt(bi, ci) /\ hit' = LinesOf(bi, ci)
       /\ (pc \in DiscPcs /\ writes' # writes /\ writes'[Len(writes')].pkt = ResetProbe) =>
              pc = "d_write_reset"
       /\ (pc \in DiscPcs /\ ci >= 1 /\ NoFaultStep /\ pc' \in DiscPcs /\ <<bi', ci'>> # <<bi, ci>>) =>
              /\ pc = "d_read_reset"
              /\ hit' = NoHit
              /\ trail' = <<"dtr", "rts", "sleep", "flush_in", "flush_out", "write", "read",
                            "flush_in", "flush_out", "write", "read">>]_vars

\* discovery has returned the sixth candidate on the bytes read after its RESET probe
C15_Witness ==
    /\ pc = "m_check"
    /\ discFaults = 0
    /\ Len(writes) = 12
    /\ writes[11] = [pkt |-> SyncProbe, baud |-> 19200, dtr |-> TRUE, rts |-> FALSE]
    /\ writes[12] = [pkt |-> ResetProbe, baud |-> 19200, dtr |-> TRUE, rts |-> FALSE]
    /\ hit = [port |-> port, baud |-> 19200, dtr |-> TRUE, rts |-> FALSE]
    /\ settings = [port |-> port, baudrate |-> 19200, dtr |-> TRUE, rts |-> FALSE]

\* ---------------------------------------------------------------- discovery resolves
\* the statements of test_serial_port in program order
DiscOrder == <<"d_access", "d_open", "d_dtr", "d_rts", "d_settle", "d_flush_in1",
               "d_flush_out1", "d_write_sync", "d_read_sync", "d_flush_in2", "d_flush_out2",
               "d_write_reset", "d_read_reset">>

\* how far test_serial_port has come: baud rate, then handshake configuration, then statement
DiscRank ==
    IF pc \in DiscPcs
    THEN bi * 100 + ci * 20 + (CHOOSE k \in 1..Len(DiscOrder) : DiscOrder[k] = pc)
    ELSE 1000

\* the link configurations test_serial_port can return for the identified port
Candidates ==
    {[port |-> port, baudrate |-> b, dtr |-> d, rts |-> r] :
        b \in {9600, 19200, 38400, 115200}, d \in BOOLEAN, r \in BOOLEAN}

\* one step taken inside test_serial_port
ResolvingStep ==
    pc \in DiscPcs =>
       /\ pc' \in DiscPcs \cup {"m_check"}
       /\ DiscRank' > DiscRank
       /\ DiscRank' <= 1000
       /\ Len(writes') <= 32
       /\ status' = Running
       /\ discFaults' # discFaults => (nOpen' = 0 /\ pc' \in {"d_open", "m_check"})
       /\ pc' = "m_check" =>
             /\ settings' \in Candidates \cup {NoSettings}
             /\ nOpen' = 0
             /\ settings' # NoSettings => hit' # NoHit

\* C16: whatever the transport does, every step of test_serial_port moves it forward in a
\* bounded order, so it returns; it has then written at most 32 packets and its result is
\* one of the 16 candidates or "not found"; a fault is caught inside, it never ends main
\* from within discovery
C16_DiscoveryResolves == [][ResolvingStep]_vars

\* three baud rates were lost to faults and the fourth one answered
C16_Witness ==
    /\ pc = "m_check"
    /\ discFaults = 3
    /\ settings \in Candidates
    /\ settings.baudrate = 115200
    /\ Len(writes) >= 1

\* ---------------------------------------------------------------- transport acquisition
\* test_serial_port has returned "not found" from a search without answer and without fault
Unanswered == pc = "m_check" /\ discFaults = 0 /\ settings = NoSettings

\* C17 as stated: the transport is opened once for each (baud, handshake configuration)
\* candidate, so the unanswered, fault-free search has made 16 opens
C17_OpenPerCandidate == Unanswered => opens = 16

\* one step of test_serial_port, seen from the transport
AcquisitionStep ==
    pc \in DiscPcs =>
       /\ opens' # opens =>
             /\ pc = "d_open" /\ nOpen = 0 /\ nOpen' = 1
             /\ opens' = opens + 1
             /\ ci' = 1
             /\ ser'.baud = baud_rates[bi]
       /\ (ci >= 1 /\ ci' = ci + 1) =>
             /\ bi' = bi
             /\ nOpen = 1 /\ nOpen' = 1
             /\ opens' = opens
             /\ ser' = ser
       /\ (pc # "d_access" /\ (bi' # bi \/ pc' = "m_check")) => nOpen' = 0
       /\ opens' <= IF pc' = "m_check" THEN Len(baud_rates) ELSE bi'
       /\ (pc' = "m_check" /\ discFaults' = 0 /\ settings' = NoSettings) =>
             (opens' = 4 /\ Len(writes') = 32)

\* C17 amended: the transport is opened once for each baud rate, at the start of its inner
\* loop; the four handshake configurations of that baud rate are probed on that one open
\* transport; it is closed before the open for the next baud rate and before the return, so
\* the unanswered, fault-free search over the 16 candidates makes 4 open/close pairs
C17_OpenPerBaud == [][AcquisitionStep]_vars

\* the sixteenth candidate is being probed on the fourth transport opened
C17_Witness ==
    /\ pc = "d_read_reset"
    /\ discFaults = 0
    /\ bi = 4 /\ ci = 4
    /\ nOpen = 1
    /\ opens = 4
    /\ Len(writes) = 32

\* ---------------------------------------------------------------- configuration hand-off
\* main holds the dictionary returned by test_serial_port
Returned == pc = "m_check" \/ InRun

\* the transport of the command run is open / has its lines set
SeqOpened == pc \in SeqPcs \ {"s_open"}
SeqLinesSet == pc \in SeqPcs \ {"s_open", "s_dtr", "s_rts"}

\* C18: the command run is entered only with a link configuration returned by discovery;
\* its transport is opened on the discovered port at the discovered baud rate, DTR and RTS
\* are set to the discovered levels before the first command packet is written, every
\* packet of the run goes out under that configuration, and the configuration main holds
\* stays the one discovery returned until main returns
C18_ConfigurationHandOff ==
    /\ pc \in SeqPcs => settings \in Candidates
    /\ (Returned /\ settings # NoSettings) =>
          /\ hit # NoHit
          /\ settings = [port |-> hit.port, baudrate |-> hit.baud, dtr |-> hit.dtr,
                         rts |-> hit.rts]
          /\ settings.port = port
    /\ pc = "s_open" => (nOpen = 0 /\ writes = <<>> /\ opens = 0)
    /\ SeqOpened =>
          /\ nOpen = 1 /\ opens = 1
          /\ ser.port = settings.port
          /\ ser.baud = settings.baudrate
    /\ pc \in {"s_dtr", "s_rts"} => writes = <<>>
    /\ pc = "s_rts" => ser.dtr = settings.dtr
    /\ SeqLinesSet =>
          /\ ser.dtr = settings.dtr
          /\ ser.rts = settings.rts
    /\ InRun =>
          \A k \in 1..Len(writes) :
              /\ writes[k].baud = settings.baudrate
              /\ writes[k].dtr = settings.dtr
              /\ writes[k].rts = settings.rts

\* the first command packet is about to be written at 38400 baud with DTR low and RTS high,
\* the configuration discovery returned
C18_Witness ==
    /\ pc = "s_write"
    /\ ki = 1
    /\ writes = <<>>
    /\ settings = [port |-> "/dev/ttyUSB0", baudrate |-> 38400, dtr |-> FALSE, rts |-> TRUE]
    /\ ser = [port |-> "/dev/ttyUSB0", baud |-> 38400, dtr |-> FALSE, rts |-> TRUE]

\* ---------------------------------------------------------------- probe step order
\* the calls of one candidate in the order of the loop body
CandidateSteps == <<"dtr", "rts", "sleep", "flush_in", "flush_out", "write", "read",
                    "flush_in", "flush_out", "write", "read">>

\* the statement the inner loop stands at, counted in calls already made for the candidate
StepsDone ==
    CASE pc = "d_rts" -> 1
      [] pc = "d_settle" -> 2
      [] pc = "d_flush_in1" -> 3
      [] pc = "d_flush_out1" -> 4
      [] pc = "d_write_sync" -> 5
      [] pc = "d_read_sync" -> 6
      [] pc = "d_flush_in2" -> 7
      [] pc = "d_flush_out2" -> 8
      [] pc = "d_write_reset" -> 9
      [] pc = "d_read_reset" -> 10
      [] OTHER -> 0

\* C19: for every candidate the calls made so far are an initial part of: set DTR, set RTS,
\* settle delay, clear input, clear output, write SYNC, read, clear input, clear output,
\* write RESET, read; so each probe write directly follows the two buffer clears; the lines
\* are at the candidate's levels from the settle delay on; and every probe packet written
\* has 6 bytes with sequence byte 0x80, length byte 1 and command SYNC or RESET
C19_ProbeStepOrder ==
    /\ pc \in DiscPcs \cup {"m_check"} =>
          /\ Len(trail) <= Len(CandidateSteps)
          /\ \A k \in 1..Len(trail) : trail[k] = CandidateSteps[k]
          /\ \A k \in 1..Len(trail) :
                trail[k] = "write" =>
                    (k >= 3 /\ trail[k - 1] = "flush_out" /\ trail[k - 2] = "flush_in")
          /\ \A k \in 1..Len(writes) :
                /\ Len(writes[k].pkt) = 6
                /\ writes[k].pkt[1] = 127
                /\ writes[k].pkt[2] = 128
                /\ writes[k].pkt[3] = 1
                /\ writes[k].pkt[4] \in {17, 1}
    /\ StepsDone >= 1 => Len(trail) = StepsDone
    /\ StepsDone >= 2 =>
          /\ ser.dtr = configurations[ci][1]
          /\ ser.rts = configurations[ci][2]
          /\ ser.baud = baud_rates[bi]
    /\ StepsDone >= 6 => writes[Len(writes)].pkt = IF StepsDone <= 9 THEN SyncProbe ELSE ResetProbe
    /\ pc = "m_check" => Len(trail) \in {0, 7, 11}

\* the second candidate has gone through all its calls up to the RESET write
C19_Witness ==
    /\ pc = "d_read_reset"
    /\ bi = 1 /\ ci = 2
    /\ trail = <<"dtr", "rts", "sleep", "flush_in", "flush_out", "write", "read",
                 "flush_in", "flush_out", "write">>
    /\ ser.dtr = TRUE /\ ser.rts = FALSE
    /\ Len(writes) = 4
    /\ writes[3].pkt = SyncProbe
    /\ writes[4].pkt = ResetProbe

\* ---------------------------------------------------------------- permission step
\* the step over the access check and its remediation
PermissionStep ==
    /\ pc = "d_access" =>
          /\ access' \in {"granted", "remediated", "remediation_failed", "check_faulted"}
          /\ pc' = "d_open"
          /\ bi' = 1 /\ ci' = 0
          /\ status' = Running
          /\ settings' = NoSettings
          /\ nOpen' = 0 /\ opens' = 0 /\ writes' = <<>>
          /\ discFaults' = 0
    /\ pc \in DiscPcs \ {"d_access"} =>
          access \in {"granted", "remediated", "remediation_failed", "check_faulted"}
    /\ (pc = "d_open" /\ bi = 1 /\ discFaults' = discFaults) =>
          (pc' = "d_dtr" /\ ci' = 1 /\ ser'.baud = 9600 /\ access' = access)

\* C20: whatever the access check gives (granted, denied and remediated, denied with the
\* remediation failing, or the check itself raising), test_serial_port goes on to the open
\* for the first baud rate and probes the first candidate; the permission step returns
\* nothing, ends nothing and leaves status and result untouched
C20_PermissionBestEffort == [][PermissionStep]_vars

\* after a failed remediation the SYNC probe of the first candidate has been written
C20_Witness ==
    /\ access = "remediation_failed"
    /\ pc = "d_read_sync"
    /\ bi = 1 /\ ci = 1
    /\ discFaults = 0
    /\ writes = <<[pkt |-> SyncProbe, baud |-> 9600, dtr |-> FALSE, rts |-> FALSE]>>

====
